---- MODULE Spec2Model ----
(***************************************************************************)
(* The local job archive of backend/supabase_job_storage.py (JobStorage):  *)
(* archive.jsonl, one JSON object per line, the in-memory URL index of     *)
(* each JobStorage instance, and the operations archive_resume,            *)
(* mark_applied, list_archives, archive_count and applied_count.           *)
(***************************************************************************)
EXTENDS Integers, Sequences, FiniteSets, TLC

VARIABLES
    archive_file,   \* resume_archive/archive.jsonl: [exists, lines, partial]
    url_index,      \* self._url_index of each JobStorage instance
    now,            \* the wall clock read by datetime.now()
    call,           \* the last call made: its name and arguments
    ret,            \* what the last call returned (or that it raised)
    first_call,     \* history: per url, the payload of the first archive_resume
    local           \* of each process: the local variables of the call it is
                    \* in the middle of, or the last call it completed

vars == <<archive_file, url_index, now, call, ret, first_call, local>>

---------------------------------------------------------------------------
\* Bounds of the model.

\* How many distinct job URLs callers use.
NumUrls == 2
\* The longest archive file found on disk at start-up (SpecAny).
MaxInitLen == 2

---------------------------------------------------------------------------
\* Values.

\* Python's None, where the other values are strings.
None == "None"

UrlNames == <<"http://a", "http://b", "http://c", "http://d", "http://e">>
URLs == {UrlNames[i] : i \in 1..NumUrls}

\* The readings of the wall clock, datetime.now(): the code stores them and
\* never compares two of them, so an earlier and a later one stand for all.
Times == {"monday", "tuesday"}
\* datetime.isoformat()
isoformat(t) == IF t = "monday" THEN "2026-01-05T09:00:00" ELSE "2026-01-06T09:00:00"

\* The JobStorage instances: the API server's module-level job_storage and
\* the one the module's __main__ block makes.
Server == "server"
Cli == "cli"
\* A second process of the API server on the same checkout (a second
\* uvicorn worker or port), with its own job_storage.
Worker == "worker"
Instances == {Server, Cli, Worker}

\* socket.gethostname()
machine_id == "host"

\* {} and dict operations.
EmptyDict == [k \in {} |-> TRUE]
Get(d, k, default) == IF k \in DOMAIN d THEN d[k] ELSE default
SetItem(d, k, v) == [f \in DOMAIN d \cup {k} |-> IF f = k THEN v ELSE d[f]]

---------------------------------------------------------------------------
\* Lines of archive.jsonl. A line is kept as what line.strip() and
\* json.loads make of it:
\*   blank   - nothing but whitespace: every scan skips it
\*   garbage - text json.loads rejects with JSONDecodeError
\*   number  - valid JSON that is a number (42): not a mapping
\*   array   - valid JSON that is a list ([]): not a mapping
\*   object  - a JSON object, json.loads gives the dict `value`
Blank == [kind |-> "blank"]
Garbage == [kind |-> "garbage"]
JsonNumber == [kind |-> "number"]
JsonArray == [kind |-> "array"]

\* json.dumps(record): one line holding the object.
dumps(record) == [kind |-> "object", value |-> record]

\* json.loads(line) raises json.JSONDecodeError
JSONDecodeError(line) == line.kind = "garbage"
\* json.loads(line) returns a dict
IsDict(line) == line.kind = "object"
\* json.loads(line) returns a value with no .get (AttributeError)
NotMapping(line) == line.kind \in {"number", "array"}

NoFile == [exists |-> FALSE, lines |-> <<>>, partial |-> FALSE]
EmptyFile == [exists |-> TRUE, lines |-> <<>>, partial |-> FALSE]

\* What the text of a line without its newline becomes when more text is
\* written right behind it: whitespace before a JSON object leaves the
\* object, anything else before it is no JSON.
Joined(last, line) == IF last.kind = "blank" THEN line ELSE Garbage

\* Mutant of AppendLine: the line is put before the lines of the file.
AppendLineFirst(f, line) ==
    [exists |-> TRUE, lines |-> <<line>> \o f.lines, partial |-> f.partial]

\* Mutant of AppendLine: the file is opened with "w", not "a".
AppendLineTruncating(f, line) ==
    [exists |-> TRUE, lines |-> <<line>>, partial |-> FALSE]

\* open(archive_file, "a") ; f.write(line + "\n")
AppendLine(f, line) ==
    IF ~f.exists THEN [exists |-> TRUE, lines |-> <<line>>, partial |-> FALSE]
    ELSE IF f.partial
         THEN [exists |-> TRUE,
               lines |-> [f.lines EXCEPT ![Len(f.lines)] = Joined(@, line)],
               partial |-> FALSE]
         ELSE [exists |-> TRUE, lines |-> Append(f.lines, line), partial |-> FALSE]

\* Mutant of Rewrite: the records are written last to first.
RewriteReversed(records) ==
    [exists |-> TRUE,
     lines |-> [i \in 1..Len(records) |-> dumps(records[Len(records) + 1 - i])],
     partial |-> FALSE]

\* Mutant of Rewrite: the loop stops one record short.
RewriteShort(records) ==
    [exists |-> TRUE,
     lines |-> [i \in 1..(Len(records) - 1) |-> dumps(records[i])],
     partial |-> FALSE]

\* open(archive_file, "w") ; for record in records: f.write(json.dumps(record) + "\n")
Rewrite(records) ==
    [exists |-> TRUE,
     lines |-> [i \in 1..Len(records) |-> dumps(records[i])],
     partial |-> FALSE]

---------------------------------------------------------------------------
\* Inputs of archive_resume: job_details.json, tailored_resume.json and
\* cleaned.txt as they stand at the call.

Payloads ==
    { [company |-> "Acme", role |-> "Engineer",
       tailored_resume |-> EmptyDict, raw_content |-> ""],
      [company |-> "Globex", role |-> "Analyst",
       tailored_resume |-> [summary |-> "tailored"], raw_content |-> "cleaned text"] }

\* job_details.json with a url key (possibly empty), and without one.
JobDetailsOf(p, u) == [url |-> u, company |-> p.company, role |-> p.role]
JobDetailsNoUrl(p) == [company |-> p.company, role |-> p.role]

---------------------------------------------------------------------------
\* What a call hands back to its caller.
Returned(v) == [returned |-> v]
Raised(e) == [raised |-> e]

\* Mutant of except_Exception: the exception is not caught.
except_Nothing(e) == Raised(e)

\* `except Exception as e: return {"success": False, "error": str(e)}`
except_Exception(e) == Returned([success |-> FALSE, error |-> e])

\* A process that is in no call.
Idle == [pc |-> "idle"]

\* self._url_index: None, or a set of urls.
NoIndex == [built |-> FALSE, urls |-> {}]

\* Mutant of Index: the set kept is empty.
IndexForgets(urls) == [built |-> TRUE, urls |-> {}]

Index(urls) == [built |-> TRUE, urls |-> urls]

---------------------------------------------------------------------------
\* JobStorage._build_url_index

\* The scan of the file: the urls added to the set, and whether the scan
\* raised. `"url" in record` raises TypeError for a number and is False for
\* a list; only JSONDecodeError is caught.
RECURSIVE ScanUrls(_, _)
ScanUrls(lines, urls) ==
    IF lines = <<>> THEN [urls |-> urls, raised |-> FALSE]
    ELSE LET line == Head(lines) IN
         IF line.kind = "blank" \/ JSONDecodeError(line)
         THEN ScanUrls(Tail(lines), urls)
         ELSE IF line.kind = "number" THEN [urls |-> urls, raised |-> TRUE]
         ELSE IF line.kind = "array" THEN ScanUrls(Tail(lines), urls)
         ELSE IF "url" \in DOMAIN line.value
              THEN ScanUrls(Tail(lines), urls \cup {line.value.url})
              ELSE ScanUrls(Tail(lines), urls)

\* The set the call leaves in self._url_index, and whether it raised.
build_url_index(self) ==
    IF url_index[self].built
    THEN [urls |-> url_index[self].urls, raised |-> FALSE]
    ELSE IF ~archive_file.exists
         THEN [urls |-> {}, raised |-> FALSE]
         ELSE ScanUrls(archive_file.lines, {})

---------------------------------------------------------------------------
\* JobStorage.archive_resume

\* Mutant of NoUrl: only a missing url is refused, an empty one is archived.
NoUrlMissingOnly(url) == url = None

\* `not url`
NoUrl(url) == url = None \/ url = ""

\* Mutant of InIndex: the lookup never finds the url.
InIndexNever(url, urls) == FALSE

\* `url in url_index`
InIndex(url, urls) == url \in urls

\* Mutant of IndexAfterAppend: the index is not updated after the write.
IndexAfterAppendStale(urls, url) == urls

\* url_index.add(url)
IndexAfterAppend(urls, url) == urls \cup {url}

\* The record archive_resume builds.
NewRecord(url, job_details, tailored_resume, raw_content, t) ==
    [url |-> url,
     archived_at |-> isoformat(t),
     machine_id |-> machine_id,
     job_details |-> job_details,
     tailored_resume |-> tailored_resume,
     raw_content |-> raw_content,
     applied |-> FALSE]

\* The history kept for the first call made with each url.
Payload(job_details, tailored_resume, raw_content) ==
    [job_details |-> job_details,
     tailored_resume |-> tailored_resume,
     raw_content |-> raw_content]

\* The call itself: what it does to the file, the index and the result.
archive_resume_call(self, job_details, tailored_resume, raw_content) ==
    LET url == Get(job_details, "url", None) IN
    /\ call' = [op |-> "archive_resume", self |-> self, url |-> url,
                payload |-> Payload(job_details, tailored_resume, raw_content)]
    /\ first_call' =
         IF NoUrl(url) \/ url \in DOMAIN first_call THEN first_call
         ELSE SetItem(first_call, url,
                      Payload(job_details, tailored_resume, raw_content))
    /\ UNCHANGED now
    /\ IF NoUrl(url)
       THEN /\ ret' = Returned([success |-> FALSE, error |-> "No URL in job details"])
            /\ UNCHANGED <<archive_file, url_index>>
       ELSE LET built == build_url_index(self) IN
            IF built.raised
            THEN /\ url_index' = [url_index EXCEPT ![self] = Index(built.urls)]
                 /\ ret' = except_Exception("TypeError")
                 /\ UNCHANGED archive_file
            ELSE IF InIndex(url, built.urls)
            THEN /\ url_index' = [url_index EXCEPT ![self] = Index(built.urls)]
                 /\ ret' = Returned([success |-> TRUE, already_exists |-> TRUE,
                                     url |-> url])
                 /\ UNCHANGED archive_file
            ELSE /\ archive_file' =
                      AppendLine(archive_file,
                                 dumps(NewRecord(url, job_details, tailored_resume,
                                                 raw_content, now)))
                 /\ url_index' = [url_index EXCEPT ![self] = Index(IndexAfterAppend(built.urls, url))]
                 /\ ret' = Returned([success |-> TRUE, already_exists |-> FALSE,
                                     url |-> url])

\* The call made by a caller that does nothing else in the same step.
archive_resume(self, job_details, tailored_resume, raw_content) ==
    /\ archive_resume_call(self, job_details, tailored_resume, raw_content)
    /\ UNCHANGED local

---------------------------------------------------------------------------
\* JobStorage.mark_applied

\* Mutant of Hit: every record is taken for the one asked for.
HitAny(record, url) == TRUE

\* record.get("url") == url
Hit(record, url) == Get(record, "url", None) = url

\* Mutant of Marked: the flag is flipped.
MarkedToggled(record, t) ==
    SetItem(SetItem(record, "applied", ~Get(record, "applied", FALSE)),
            "applied_at", isoformat(t))

\* Mutant of Marked: the flag is set and the time is not.
MarkedNoTime(record, t) == SetItem(record, "applied", TRUE)

\* The matching record with the flag and the time set.
Marked(record, t) ==
    SetItem(SetItem(record, "applied", TRUE), "applied_at", isoformat(t))

\* The read loop: the records kept, whether one matched, its company and
\* role, and whether the loop raised (record.get on a value that is not a
\* dict: AttributeError, which only the outer `except Exception` catches).
RECURSIVE MarkScan(_, _, _, _)
MarkScan(lines, url, t, acc) ==
    IF lines = <<>> THEN acc
    ELSE LET line == Head(lines) IN
         IF line.kind = "blank" \/ JSONDecodeError(line)
         THEN MarkScan(Tail(lines), url, t, acc)
         ELSE IF NotMapping(line) THEN [acc EXCEPT !.raised = TRUE]
         ELSE LET record == line.value
                  hit == Hit(record, url)
                  details == Get(record, "job_details", EmptyDict)
              IN MarkScan(Tail(lines), url, t,
                   [records |-> Append(acc.records,
                                       IF hit THEN Marked(record, t) ELSE record),
                    found |-> acc.found \/ hit,
                    company |-> IF hit THEN Get(details, "company", "Unknown")
                                ELSE acc.company,
                    role |-> IF hit THEN Get(details, "role", "Unknown")
                             ELSE acc.role,
                    raised |-> FALSE])

\* Whether an entry of the url is applied already when the call is made:
\* kept with the call, for the history.
AppliedBefore(f, url) ==
    \E i \in 1..Len(f.lines) :
        /\ IsDict(f.lines[i])
        /\ Get(f.lines[i].value, "url", None) = url
        /\ Get(f.lines[i].value, "applied", FALSE)

mark_applied(self, url) ==
    /\ call' = [op |-> "mark_applied", self |-> self, url |-> url,
                again |-> AppliedBefore(archive_file, url)]
    /\ UNCHANGED <<url_index, now, first_call, local>>
    /\ IF ~archive_file.exists
       THEN /\ ret' = Returned([success |-> FALSE, not_found |-> TRUE,
                                error |-> "No archive exists"])
            /\ UNCHANGED archive_file
       ELSE LET scan == MarkScan(archive_file.lines, url, now,
                                 [records |-> <<>>, found |-> FALSE,
                                  company |-> "Unknown", role |-> "Unknown",
                                  raised |-> FALSE])
            IN IF scan.raised
               THEN /\ ret' = except_Exception("AttributeError")
                    /\ UNCHANGED archive_file
               ELSE IF ~scan.found
               THEN /\ ret' = Returned([success |-> FALSE, not_found |-> TRUE,
                                        error |-> "URL not in archive"])
                    /\ UNCHANGED archive_file
               ELSE /\ archive_file' = Rewrite(scan.records)
                    /\ ret' = Returned([success |-> TRUE, company |-> scan.company,
                                        role |-> scan.role])

---------------------------------------------------------------------------
\* JobStorage.list_archives

\* The summary of one record.
Summary(record) ==
    LET details == Get(record, "job_details", EmptyDict) IN
    [url |-> Get(record, "url", None),
     company |-> Get(details, "company", None),
     role |-> Get(details, "role", None),
     archived_at |-> Get(record, "archived_at", None),
     applied |-> Get(record, "applied", FALSE),
     applied_at |-> Get(record, "applied_at", None)]

\* The read loop: record.get on a value that is not a dict raises
\* AttributeError, which nothing here catches.
RECURSIVE ListScan(_, _)
ListScan(lines, results) ==
    IF lines = <<>> THEN Returned(results)
    ELSE LET line == Head(lines) IN
         IF line.kind = "blank" \/ JSONDecodeError(line)
         THEN ListScan(Tail(lines), results)
         ELSE IF NotMapping(line) THEN Raised("AttributeError")
         ELSE ListScan(Tail(lines), Append(results, Summary(line.value)))

list_archives(f) == IF ~f.exists THEN Returned(<<>>) ELSE ListScan(f.lines, <<>>)

---------------------------------------------------------------------------
\* JobStorage.archive_count: the lines that line.strip() leaves non-empty.
RECURSIVE CountScan(_, _)
CountScan(lines, count) ==
    IF lines = <<>> THEN count
    ELSE CountScan(Tail(lines),
                   IF Head(lines).kind # "blank" THEN count + 1 ELSE count)

archive_count(f) == IF ~f.exists THEN Returned(0) ELSE Returned(CountScan(f.lines, 0))

---------------------------------------------------------------------------
\* JobStorage.applied_count
RECURSIVE AppliedScan(_, _)
AppliedScan(lines, count) ==
    IF lines = <<>> THEN Returned(count)
    ELSE LET line == Head(lines) IN
         IF line.kind = "blank" \/ JSONDecodeError(line)
         THEN AppliedScan(Tail(lines), count)
         ELSE IF NotMapping(line) THEN Raised("AttributeError")
         ELSE AppliedScan(Tail(lines),
                          IF Get(line.value, "applied", FALSE) THEN count + 1
                          ELSE count)

applied_count(f) == IF ~f.exists THEN Returned(0) ELSE AppliedScan(f.lines, 0)

---------------------------------------------------------------------------
\* The calls a client makes, and the passing of time.

\* The inputs of one archive_resume call made with the files of payload p.
InputsOf(p) ==
    { Payload(job_details, p.tailored_resume, p.raw_content) :
        job_details \in {JobDetailsOf(p, u) : u \in URLs \cup {""}}
                        \cup {JobDetailsNoUrl(p)} }

ArchiveInputs == UNION {InputsOf(p) : p \in Payloads}

ArchiveResume(self) ==
    \E input \in ArchiveInputs :
        archive_resume(self, input.job_details, input.tailored_resume,
                       input.raw_content)

MarkApplied(self) == \E url \in URLs : mark_applied(self, url)

ListArchives(self) ==
    /\ call' = [op |-> "list_archives", self |-> self]
    /\ ret' = list_archives(archive_file)
    /\ UNCHANGED <<archive_file, url_index, now, first_call, local>>

ArchiveCount(self) ==
    /\ call' = [op |-> "archive_count", self |-> self]
    /\ ret' = archive_count(archive_file)
    /\ UNCHANGED <<archive_file, url_index, now, first_call, local>>

AppliedCount(self) ==
    /\ call' = [op |-> "applied_count", self |-> self]
    /\ ret' = applied_count(archive_file)
    /\ UNCHANGED <<archive_file, url_index, now, first_call, local>>

Tick ==
    /\ now = "monday"
    /\ now' = "tuesday"
    /\ UNCHANGED <<archive_file, url_index, call, ret, first_call, local>>

---------------------------------------------------------------------------
\* One JobStorage instance (the server's) on an archive that starts out
\* missing or empty.

InitCommon ==
    /\ url_index = [i \in Instances |-> NoIndex]
    /\ now = "monday"
    /\ call = [op |-> "__init__", self |-> Server]
    /\ ret = Returned(None)
    /\ first_call = EmptyDict
    /\ local = [i \in Instances |-> Idle]

Init ==
    /\ archive_file \in {NoFile, EmptyFile}
    /\ InitCommon

ServerArchiveResume == ArchiveResume(Server)
ServerMarkApplied == MarkApplied(Server)
ServerListArchives == ListArchives(Server)
ServerArchiveCount == ArchiveCount(Server)
ServerAppliedCount == AppliedCount(Server)

Next ==
    \/ ServerArchiveResume
    \/ ServerMarkApplied
    \/ ServerListArchives
    \/ ServerArchiveCount
    \/ ServerAppliedCount
    \/ Tick

Spec == Init /\ [][Next]_vars

---------------------------------------------------------------------------
\* The same instance on an archive file found on disk with any content:
\* records of earlier runs, records other tools wrote (no applied key, no
\* url key), blank lines, lines that are no JSON, JSON that is no object,
\* and possibly a last line without its newline.

FoundRecords ==
    LET p == CHOOSE q \in Payloads : q.company = "Acme"
        u == UrlNames[1]
        created == NewRecord(u, JobDetailsOf(p, u), p.tailored_resume,
                             p.raw_content, "monday")
    IN  { created,
          Marked(created, "monday"),
          [url |-> u, job_details |-> JobDetailsOf(p, u)],
          [archived_at |-> isoformat("monday")] }

FoundLines == {Blank, Garbage, JsonNumber, JsonArray} \cup {dumps(r) : r \in FoundRecords}

FoundFiles ==
    {NoFile} \cup
    { f \in { [exists |-> TRUE, lines |-> lines, partial |-> partial] :
                lines \in UNION {[1..n -> FoundLines] : n \in 0..MaxInitLen},
                partial \in BOOLEAN } :
        f.partial => f.lines # <<>> }

InitAny ==
    /\ archive_file \in FoundFiles
    /\ InitCommon

\* The calls made with the files of one payload.
FoundInputs == InputsOf(CHOOSE q \in Payloads : q.company = "Globex")

FoundArchiveResume ==
    \E input \in FoundInputs :
        archive_resume(Server, input.job_details, input.tailored_resume,
                       input.raw_content)

NextAny ==
    \/ FoundArchiveResume
    \/ ServerMarkApplied
    \/ ServerListArchives
    \/ ServerArchiveCount
    \/ ServerAppliedCount

SpecAny == InitAny /\ [][NextAny]_vars

---------------------------------------------------------------------------
\* Reading the state for the properties below.

\* The well-formed entries of a file, in file order.
Entries(f) == SelectSeq(f.lines, IsDict)
Records(f) == LET entries == Entries(f) IN [i \in 1..Len(entries) |-> entries[i].value]
UrlOf(record) == Get(record, "url", None)

\* The positions, among the well-formed entries, of those with url u.
WithUrl(f, u) == LET records == Records(f) IN {i \in 1..Len(records) : UrlOf(records[i]) = u}

\* The three inputs as one stored record holds them.
StoredPayload(record) ==
    Payload(record.job_details, record.tailored_resume, record.raw_content)

\* The results of archive_resume and mark_applied.
Created(r) ==
    /\ "returned" \in DOMAIN r
    /\ r.returned.success
    /\ "already_exists" \in DOMAIN r.returned
    /\ ~r.returned.already_exists
AlreadyExists(r) ==
    /\ "returned" \in DOMAIN r
    /\ r.returned.success
    /\ "already_exists" \in DOMAIN r.returned
    /\ r.returned.already_exists
NoUrlError(r) == r = Returned([success |-> FALSE, error |-> "No URL in job details"])
NotFound(r) ==
    /\ "returned" \in DOMAIN r
    /\ ~r.returned.success
    /\ "not_found" \in DOMAIN r.returned
    /\ r.returned.not_found
AppliedResult(r) ==
    /\ "returned" \in DOMAIN r
    /\ r.returned.success
    /\ DOMAIN r.returned = {"success", "company", "role"}

---------------------------------------------------------------------------
\* C1: archive_resume is idempotent per url. After every archive_resume call
\* made with a url U on the one instance, whatever its payload, the file
\* holds exactly one record with url U, that record's job_details,
\* tailored_resume and raw_content are those of the first call made with U,
\* and the call reports created if it is the first call with U and
\* already_exists if it is a later one.
C1_AppendIdempotentPerUrl ==
    [][\A input \in ArchiveInputs :
         LET u == Get(input.job_details, "url", None) IN
         ( /\ ~NoUrl(u)
           /\ archive_resume(Server, input.job_details, input.tailored_resume,
                             input.raw_content) )
         => LET records == Records(archive_file')
                stored == {i \in 1..Len(records) : UrlOf(records[i]) = u}
            IN
            /\ Cardinality(stored) = 1
            /\ \A i \in stored : StoredPayload(records[i]) = first_call'[u]
            /\ IF u \in DOMAIN first_call THEN AlreadyExists(ret')
               ELSE Created(ret')
      ]_vars

\* A later call with url U and a payload other than the first call's has
\* reported already_exists.
C1_Witness ==
    /\ call.op = "archive_resume"
    /\ AlreadyExists(ret)
    /\ call.payload # first_call[call.url]
    /\ Cardinality(WithUrl(archive_file, call.url)) = 1

\* C2: from a missing or empty archive file, after any sequence of
\* archive_resume and mark_applied calls, no two stored entries have the same
\* url.
C2_NoTwoEntriesShareUrl ==
    LET records == Records(archive_file) IN
    \A i, j \in 1..Len(records) : i # j => UrlOf(records[i]) # UrlOf(records[j])

\* Every url has been archived, one of them twice over (the second call
\* found it), and one entry has been marked since.
C2_Witness ==
    /\ Len(Records(archive_file)) = NumUrls
    /\ \A u \in URLs : Cardinality(WithUrl(archive_file, u)) = 1
    /\ \E i \in 1..Len(Records(archive_file)) :
         Get(Records(archive_file)[i], "applied", FALSE)
    /\ call.op = "archive_resume"
    /\ AlreadyExists(ret)

\* C3: a successful mark_applied(U) changes at most one stored entry. The
\* entry with url U gets applied = true and an applied_at and keeps its
\* other fields, every other entry is written back with the same content,
\* and the entries stay in the same order.
C3_MarkAppliedChangesOneEntry ==
    [][\A u \in URLs :
         (mark_applied(Server, u) /\ AppliedResult(ret'))
         => LET old == archive_file.lines
                new == archive_file'.lines
            IN /\ Len(new) = Len(old)
               /\ \A i \in 1..Len(old) :
                    IF UrlOf(old[i].value) = u
                    THEN /\ new[i].value.applied = TRUE
                         /\ "applied_at" \in DOMAIN new[i].value
                         /\ \A k \in DOMAIN old[i].value \ {"applied", "applied_at"} :
                              /\ k \in DOMAIN new[i].value
                              /\ new[i].value[k] = old[i].value[k]
                    ELSE new[i] = old[i]
               /\ Cardinality({i \in 1..Len(old) : new[i] # old[i]}) <= 1
      ]_vars

\* mark_applied has just succeeded on a file of several entries, and an
\* entry other than the marked one is still not applied.
C3_Witness ==
    /\ call.op = "mark_applied"
    /\ AppliedResult(ret)
    /\ Len(archive_file.lines) >= 2
    /\ \E i \in WithUrl(archive_file, call.url) : Records(archive_file)[i].applied
    /\ \E i \in 1..Len(Records(archive_file)) :
         /\ UrlOf(Records(archive_file)[i]) # call.url
         /\ ~Records(archive_file)[i].applied

\* C5: archive_resume with job_details whose url is absent or empty returns
\* the no-url error and writes nothing: the archive file, archive_count()
\* and the url index are as before, and archive_count() stays 0 on a fresh
\* archive.
C5_NoUrlNoWrite ==
    [][\A input \in ArchiveInputs :
         LET u == Get(input.job_details, "url", None) IN
         ( /\ u = None \/ u = ""
           /\ archive_resume(Server, input.job_details, input.tailored_resume,
                             input.raw_content) )
         => /\ NoUrlError(ret')
            /\ archive_file' = archive_file
            /\ url_index' = url_index
            /\ archive_count(archive_file') = archive_count(archive_file)
            /\ archive_file \in {NoFile, EmptyFile}
                 => archive_count(archive_file') = Returned(0)
      ]_vars

\* A call with an empty url on a fresh archive has returned the no-url
\* error: there is still no file and no index.
C5_Witness ==
    /\ call.op = "archive_resume"
    /\ call.url = ""
    /\ NoUrlError(ret)
    /\ archive_file = NoFile
    /\ url_index[Server] = NoIndex

\* Whether the file holds an entry for u, and an applied one.
HasEntry(f, u) ==
    \E i \in 1..Len(f.lines) : IsDict(f.lines[i]) /\ UrlOf(f.lines[i].value) = u
HasApplied(f, u) ==
    \E i \in 1..Len(f.lines) :
        /\ IsDict(f.lines[i])
        /\ UrlOf(f.lines[i].value) = u
        /\ Get(f.lines[i].value, "applied", FALSE)

\* C6: every url moves only along absent -> archived(applied = false) ->
\* archived(applied = true). No step removes the entry of a stored url, no
\* step takes applied from true back to false, and a url that enters storage
\* enters it with applied = false.
C6_UrlLifecycle ==
    [][\A u \in URLs :
         /\ HasEntry(archive_file, u) => HasEntry(archive_file', u)
         /\ HasApplied(archive_file, u) => HasApplied(archive_file', u)
         /\ (~HasEntry(archive_file, u) /\ HasEntry(archive_file', u))
              => ~HasApplied(archive_file', u)
      ]_vars

\* One url is archived and applied while another is archived and not applied.
C6_Witness ==
    \E u, v \in URLs :
        /\ HasApplied(archive_file, u)
        /\ HasEntry(archive_file, v)
        /\ ~HasApplied(archive_file, v)

\* C7: every stored entry has an applied_at exactly when its applied is true.
C7_AppliedAtIffApplied ==
    LET records == Records(archive_file) IN
    \A i \in 1..Len(records) :
        ("applied_at" \in DOMAIN records[i]) <=> Get(records[i], "applied", FALSE)

\* The file holds an entry mark_applied has set both fields of and an entry
\* archive_resume created with applied = false and no applied_at.
C7_Witness ==
    /\ \E i \in 1..Len(Records(archive_file)) :
         /\ Records(archive_file)[i].applied
         /\ "applied_at" \in DOMAIN Records(archive_file)[i]
    /\ \E i \in 1..Len(Records(archive_file)) :
         /\ ~Records(archive_file)[i].applied
         /\ "applied_at" \notin DOMAIN Records(archive_file)[i]

\* Whether every line of the file is blank, rejected by json.loads, or a
\* JSON object: no line is JSON of another type.
OnlyObjectsAndUnparseable(f) == \A i \in 1..Len(f.lines) : ~NotMapping(f.lines[i])

\* C4: mark_applied(U) returns not_found and changes nothing whenever the
\* archive file does not exist, is empty, holds only unparseable lines, or
\* holds no entry whose url is U: the file, list_archives() and
\* archive_count() are after the call what they were before it.
C4_NotFoundChangesNothing ==
    [][\A u \in URLs :
         (mark_applied(Server, u) /\ WithUrl(archive_file, u) = {})
         => /\ NotFound(ret')
            /\ archive_file' = archive_file
            /\ list_archives(archive_file') = list_archives(archive_file)
            /\ archive_count(archive_file') = archive_count(archive_file)
      ]_vars

\* C4 on the files whose lines are all blank, rejected by json.loads, or
\* JSON objects: there mark_applied(U) returns not_found and changes nothing
\* whenever no entry has url U.
C4_NotFoundChangesNothingOnObjects ==
    [][\A u \in URLs :
         ( /\ mark_applied(Server, u)
           /\ WithUrl(archive_file, u) = {}
           /\ OnlyObjectsAndUnparseable(archive_file) )
         => /\ NotFound(ret')
            /\ archive_file' = archive_file
            /\ list_archives(archive_file') = list_archives(archive_file)
            /\ archive_count(archive_file') = archive_count(archive_file)
      ]_vars

\* C8: a stored record is changed at most once. Once the record of U is
\* applied, a later mark_applied(U) leaves it as it is, applied_at included.
C8_MarkedAtMostOnce ==
    [][\A u \in URLs :
         (mark_applied(Server, u) /\ HasApplied(archive_file, u))
         => \A i \in WithUrl(archive_file, u) :
              Records(archive_file')[i] = Records(archive_file)[i]
      ]_vars

\* C9: archive_count() returns the number of well-formed entries of the
\* file, not counting the lines that do not parse, and equals the length of
\* list_archives().
C9_CountIsWellFormedEntries ==
    call.op = "archive_count"
    => /\ ret = Returned(Len(Entries(archive_file)))
       /\ "returned" \in DOMAIN list_archives(archive_file)
       /\ ret.returned = Len(list_archives(archive_file).returned)

\* The number of well-formed entries whose applied is true.
AppliedEntries(f) ==
    Cardinality({i \in 1..Len(Records(f)) : Get(Records(f)[i], "applied", FALSE)})

\* C10: applied_count() returns the number of well-formed entries whose
\* applied is true; blank lines and lines that do not parse are ignored and
\* an entry with no applied field counts as not applied.
C10_AppliedCountIsAppliedEntries ==
    call.op = "applied_count" => ret = Returned(AppliedEntries(archive_file))

\* C10 on the files whose lines are all blank, rejected by json.loads, or
\* JSON objects: there applied_count() is the number of applied entries.
C10_AppliedCountOnObjects ==
    (call.op = "applied_count" /\ OnlyObjectsAndUnparseable(archive_file))
    => ret = Returned(AppliedEntries(archive_file))

---------------------------------------------------------------------------
\* The summaries of the well-formed entries of a file, in file order.
Summaries(f) == LET records == Records(f) IN [i \in 1..Len(records) |-> Summary(records[i])]

\* C11: list_archives() returns one summary per well-formed entry of the
\* file, in file order (the order of the appends), skipping without an error
\* the lines that are no well-formed entry, and reads the file again at
\* every call, so that it shows every append and mark_applied made before it.
C11_ListIsEntriesInOrder ==
    call.op = "list_archives" => ret = Returned(Summaries(archive_file))

\* C11 on the files whose lines are all blank, rejected by json.loads, or
\* JSON objects: there list_archives() is the summaries of the entries in
\* file order.
C11_ListIsEntriesInOrderOnObjects ==
    (call.op = "list_archives" /\ OnlyObjectsAndUnparseable(archive_file))
    => ret = Returned(Summaries(archive_file))

\* C12: in any state of the archive where U is archived with applied =
\* false, a successful mark_applied(U) leaves archive_count() as it was,
\* increases applied_count() by exactly 1, and list_archives() then shows U
\* with applied = true and an applied_at that is not null.
C12_ApplyTransition ==
    [][\A u \in URLs :
         ( /\ mark_applied(Server, u)
           /\ AppliedResult(ret')
           /\ Cardinality(WithUrl(archive_file, u)) = 1
           /\ ~HasApplied(archive_file, u) )
         => /\ archive_count(archive_file') = archive_count(archive_file)
            /\ applied_count(archive_file') =
                 Returned(applied_count(archive_file).returned + 1)
            /\ LET listed == list_archives(archive_file').returned IN
               /\ \E i \in 1..Len(listed) : listed[i].url = u
               /\ \A i \in 1..Len(listed) :
                    listed[i].url = u
                    => listed[i].applied /\ listed[i].applied_at # None
      ]_vars

\* C12 on the archive the instance has written itself from a missing or
\* empty file: mark_applied has just succeeded for a url that was archived
\* and not applied, next to an entry that stays not applied.
C12_ApplyTransitionReached ==
    /\ call.op = "mark_applied"
    /\ AppliedResult(ret)
    /\ applied_count(archive_file) = Returned(1)
    /\ archive_count(archive_file) = Returned(2)

\* C16: when archive_resume finds its url in the url index it returns
\* already_exists and touches nothing: the archive file is what it was, to
\* the last unterminated line, and the index is the set the url was looked
\* up in (the instance's index as it was, when it had been built before).
C16_AlreadyExistsTouchesNothing ==
    [][\A input \in ArchiveInputs :
         LET u == Get(input.job_details, "url", None)
             built == build_url_index(Server)
         IN
         ( /\ archive_resume(Server, input.job_details, input.tailored_resume,
                             input.raw_content)
           /\ ~NoUrl(u)
           /\ ~built.raised
           /\ u \in built.urls )
         => /\ AlreadyExists(ret')
            /\ archive_file' = archive_file
            /\ url_index'[Server].built
            /\ url_index'[Server].urls = built.urls
            /\ url_index[Server].built => url_index' = url_index
      ]_vars

\* archive_resume has returned already_exists on a file found with a last
\* line that has no newline: the file is still as it was found.
C16_Witness ==
    /\ call.op = "archive_resume"
    /\ AlreadyExists(ret)
    /\ archive_file.partial
    /\ \E i \in 1..Len(archive_file.lines) : JSONDecodeError(archive_file.lines[i])
    /\ call.url \in url_index[Server].urls

---------------------------------------------------------------------------
\* Calls that meet an I/O error (OSError: the disk is full, the file cannot
\* be opened or read). Each raises inside the method's try block and
\* is turned into a result by its `except Exception`.

\* What open(archive_file, "a") ; f.write(line + "\n") can leave when it
\* raises: the file as it was (open raised), the file created and still
\* empty, or the file with the first part of the text behind it. The first
\* part of the text of a JSON object is no JSON, and has no newline.
AppendInterrupted(f, line) ==
    { f,
      [exists |-> TRUE, lines |-> f.lines, partial |-> f.partial],
      [AppendLine(f, Garbage) EXCEPT !.partial = TRUE] }

\* What open(archive_file, "w") ; for record in records: f.write(...) can
\* leave when it raises: the file as it was (open raised), or, once open has
\* truncated the file, the first k records, with or without the first part
\* of the text of the next one.
RewriteInterrupted(f, records) ==
    {f} \cup
    UNION { { Rewrite(SubSeq(records, 1, k)),
              [AppendLine(Rewrite(SubSeq(records, 1, k)), Garbage)
                 EXCEPT !.partial = TRUE] } :
            k \in 0..(Len(records) - 1) }

\* The statements of archive_resume that read or write a file.
ArchiveFailPoints == {"job_details", "index", "tailored_resume", "write"}

\* archive_resume when the statement `at` raises OSError.
archive_resume_OSError(self, job_details, tailored_resume, raw_content, at) ==
    LET url == Get(job_details, "url", None)
        built == build_url_index(self)
    IN
    /\ call' = [op |-> "archive_resume", self |-> self, url |-> url,
                failed |-> at]
    /\ ret' = except_Exception("OSError")
    /\ UNCHANGED <<now, first_call, local>>
    /\ CASE at = "job_details" ->
              \* open(job_details_path) / json.load
              UNCHANGED <<archive_file, url_index>>
         [] at = "index" ->
              \* the scan of _build_url_index stops after k lines (at open:
              \* k = 0) and leaves the set it has filled so far
              /\ ~NoUrl(url)
              /\ ~url_index[self].built
              /\ archive_file.exists
              /\ \E k \in 0..(IF archive_file.lines = <<>> THEN 0
                              ELSE Len(archive_file.lines) - 1) :
                   LET scan == ScanUrls(SubSeq(archive_file.lines, 1, k), {}) IN
                   /\ ~scan.raised
                   /\ url_index' = [url_index EXCEPT ![self] = Index(scan.urls)]
              /\ UNCHANGED archive_file
         [] at = "tailored_resume" ->
              \* open(tailored_resume_path) / json.load
              /\ ~NoUrl(url)
              /\ ~built.raised
              /\ ~InIndex(url, built.urls)
              /\ url_index' = [url_index EXCEPT ![self] = Index(built.urls)]
              /\ UNCHANGED archive_file
         [] at = "write" ->
              \* open(archive_file, "a") / f.write
              /\ ~NoUrl(url)
              /\ ~built.raised
              /\ ~InIndex(url, built.urls)
              /\ archive_file' \in
                   AppendInterrupted(archive_file,
                                     dumps(NewRecord(url, job_details, tailored_resume,
                                                     raw_content, now)))
              /\ url_index' = [url_index EXCEPT ![self] = Index(built.urls)]

\* The statements of mark_applied that read or write a file.
MarkFailPoints == {"read", "write"}

\* mark_applied when the statement `at` raises OSError.
mark_applied_OSError(self, url, at) ==
    /\ call' = [op |-> "mark_applied", self |-> self, url |-> url, failed |-> at]
    /\ ret' = except_Exception("OSError")
    /\ UNCHANGED <<url_index, now, first_call, local>>
    /\ archive_file.exists
    /\ CASE at = "read" ->
              \* open(archive_file, "r") / for line in f
              UNCHANGED archive_file
         [] at = "write" ->
              \* open(archive_file, "w") / f.write
              LET scan == MarkScan(archive_file.lines, url, now,
                                   [records |-> <<>>, found |-> FALSE,
                                    company |-> "Unknown", role |-> "Unknown",
                                    raised |-> FALSE])
              IN /\ ~scan.raised
                 /\ scan.found
                 /\ archive_file' \in RewriteInterrupted(archive_file, scan.records)

ServerArchiveResumeOSError ==
    \E input \in FoundInputs, at \in ArchiveFailPoints :
        archive_resume_OSError(Server, input.job_details, input.tailored_resume,
                               input.raw_content, at)

ServerMarkAppliedOSError ==
    \E url \in URLs, at \in MarkFailPoints : mark_applied_OSError(Server, url, at)

\* The server's instance on a file found on disk, with calls that succeed
\* and calls that meet an I/O error.
NextFail ==
    \/ FoundArchiveResume
    \/ ServerMarkApplied
    \/ ServerArchiveResumeOSError
    \/ ServerMarkAppliedOSError

\* The files this instance starts on: none, an empty one, or one holding a
\* single line of any kind, with or without its newline.
FailFiles ==
    {NoFile, EmptyFile} \cup
    { [exists |-> TRUE, lines |-> <<line>>, partial |-> partial] :
        line \in FoundLines, partial \in BOOLEAN }

InitFail ==
    /\ archive_file \in FailFiles
    /\ InitCommon

SpecFail == InitFail /\ [][NextFail]_vars

---------------------------------------------------------------------------
\* The file a mark_applied(u) that runs to its end at time t writes.
Rewritten(f, u, t) ==
    Rewrite(MarkScan(f.lines, u, t,
                     [records |-> <<>>, found |-> FALSE, company |-> "Unknown",
                      role |-> "Unknown", raised |-> FALSE]).records)

\* A result that reports a failure with its message.
ErrorResult(r) ==
    /\ "returned" \in DOMAIN r
    /\ ~r.returned.success
    /\ "error" \in DOMAIN r.returned

\* C13: the rewrite of mark_applied is all-or-nothing. When the rewrite
\* fails after it has started, the file holds either the complete old
\* sequence of entries or the complete new one: never a shorter sequence,
\* and never a last entry written in part.
C13_RewriteAllOrNothing ==
    [][\A u \in URLs :
         mark_applied_OSError(Server, u, "write")
         => \/ archive_file' = archive_file
            \/ archive_file' = Rewritten(archive_file, u, now)
      ]_vars

\* C14: archive_resume never leaves a part of an entry in the file. A call
\* that reports created has written its entry whole, newline included, and
\* a call whose write fails leaves nothing of the entry behind the lines the
\* file held.
C14_AppendLeavesNoPartialEntry ==
    [][\A input \in ArchiveInputs :
         /\ ( /\ archive_resume(Server, input.job_details, input.tailored_resume,
                                input.raw_content)
              /\ Created(ret') )
            => ~archive_file'.partial
         /\ archive_resume_OSError(Server, input.job_details, input.tailored_resume,
                                   input.raw_content, "write")
            => /\ archive_file'.lines = archive_file.lines
               /\ archive_file'.partial = archive_file.partial
      ]_vars

\* C15: archive_resume and mark_applied never raise to their caller. Every
\* outcome is a returned result: created, already_exists, applied, or a
\* failure with its message; a missing or empty url gives the no-url error,
\* a missing archive file and a url no entry has give not_found, and an
\* I/O error met while reading or writing gives an error result.
C15_NeverRaises ==
    call.op \in {"archive_resume", "mark_applied"}
    => /\ "returned" \in DOMAIN ret
       /\ \/ Created(ret)
          \/ AlreadyExists(ret)
          \/ AppliedResult(ret)
          \/ ErrorResult(ret)
       /\ "failed" \in DOMAIN call => ErrorResult(ret)
       /\ (call.op = "archive_resume" /\ "failed" \notin DOMAIN call
             /\ (call.url = None \/ call.url = ""))
          => NoUrlError(ret)
       /\ (call.op = "mark_applied" /\ "failed" \notin DOMAIN call
             /\ ~archive_file.exists)
          => NotFound(ret)
       /\ (call.op = "mark_applied" /\ "failed" \notin DOMAIN call
             /\ OnlyObjectsAndUnparseable(archive_file)
             /\ ~HasEntry(archive_file, call.url))
          => NotFound(ret)

\* The rewrite of mark_applied has met an I/O error: the call has returned
\* an error result, and the file, which held an entry, is left empty.
C15_Witness ==
    /\ call.op = "mark_applied"
    /\ "failed" \in DOMAIN call
    /\ call.failed = "write"
    /\ ErrorResult(ret)
    /\ archive_file = EmptyFile
    /\ \E u \in URLs : u \in url_index[Server].urls

---------------------------------------------------------------------------
\* Two processes on one archive file: the API server, whose JobStorage
\* lives as long as the server, and runs of the module's __main__ block,
\* each of which makes a new JobStorage, archives once and ends.

\* storage.archive_resume(...) of a run of __main__: the instance is new.
CliArchiveResume ==
    /\ ~url_index[Cli].built
    /\ \E input \in FoundInputs :
         archive_resume(Cli, input.job_details, input.tailored_resume,
                        input.raw_content)

\* The run ends; the next one starts with JobStorage(): _url_index = None.
CliExit ==
    /\ url_index[Cli].built
    /\ local[Cli].pc = "idle"
    /\ url_index' = [url_index EXCEPT ![Cli] = NoIndex]
    /\ local' = [local EXCEPT ![Cli] = Idle]
    /\ UNCHANGED <<archive_file, now, call, ret, first_call>>

NextShared ==
    \/ FoundArchiveResume
    \/ ServerMarkApplied
    \/ CliArchiveResume
    \/ CliExit

SpecShared == Init /\ [][NextShared]_vars

\* C18: the url index is refreshed when it cannot be known to be fresh.
\* When another instance has archived U in the shared file after this
\* instance built its index, archive_resume(U) on this instance returns
\* already_exists and the file still holds exactly one record for U.
C18_IndexRefreshedWhenStale ==
    [][\A input \in ArchiveInputs :
         LET u == Get(input.job_details, "url", None) IN
         ( /\ archive_resume(Server, input.job_details, input.tailored_resume,
                             input.raw_content)
           /\ url_index[Server].built
           /\ HasEntry(archive_file, u) )
         => /\ AlreadyExists(ret')
            /\ Cardinality(WithUrl(archive_file', u)) = 1
      ]_vars

---------------------------------------------------------------------------
\* The server and one run of __main__ with their calls taken step by step:
\* a call reads the file in one step and writes it in a later one, and the
\* other process can take steps in between. A write of one line in append mode and the
\* rewrite of the file are each taken as one step.

\* The process has returned from a call: where processes take steps in
\* turn, the last call of each and its result are kept with the process.
Done(op, url, result) == [pc |-> "idle", op |-> op, url |-> url, ret |-> result]

\* The same for a call that has written an entry, with the history of the
\* lines the file held when the call looked its url up.
DoneCreated(url, result, seen) ==
    [pc |-> "idle", op |-> "archive_resume", url |-> url, ret |-> result,
     seen |-> seen]

\* archive_resume up to the write: the url, the index lookup, the record.
archive_resume_lookup(self, job_details, tailored_resume, raw_content) ==
    LET url == Get(job_details, "url", None)
        returns(result) ==
            local' = [local EXCEPT ![self] = Done("archive_resume", url, result)]
    IN
    /\ local[self].pc = "idle"
    /\ UNCHANGED <<archive_file, now, call, ret, first_call>>
    /\ IF NoUrl(url)
       THEN /\ returns(Returned([success |-> FALSE, error |-> "No URL in job details"]))
            /\ UNCHANGED url_index
       ELSE LET built == build_url_index(self) IN
            /\ url_index' = [url_index EXCEPT ![self] = Index(built.urls)]
            /\ IF built.raised
               THEN returns(except_Exception("TypeError"))
               ELSE IF InIndex(url, built.urls)
               THEN returns(Returned([success |-> TRUE, already_exists |-> TRUE,
                                      url |-> url]))
               ELSE /\ local' = [local EXCEPT ![self] =
                                   [pc |-> "archive_resume_write",
                                    url |-> url,
                                    record |-> NewRecord(url, job_details, tailored_resume,
                                                         raw_content, now),
                                    seen |-> archive_file.lines]]

\* archive_resume from the write on: the append, the index, the result.
archive_resume_write(self) ==
    LET url == local[self].url
        result == Returned([success |-> TRUE, already_exists |-> FALSE, url |-> url])
    IN
    /\ local[self].pc = "archive_resume_write"
    /\ archive_file' = AppendLine(archive_file, dumps(local[self].record))
    /\ url_index' = [url_index EXCEPT ![self] =
                       Index(IndexAfterAppend(url_index[self].urls, url))]
    /\ local' = [local EXCEPT ![self] = DoneCreated(url, result, local[self].seen)]
    /\ UNCHANGED <<now, call, ret, first_call>>

\* mark_applied up to the rewrite: the read loop.
mark_applied_read(self, url) ==
    LET returns(result) ==
            local' = [local EXCEPT ![self] = Done("mark_applied", url, result)]
    IN
    /\ local[self].pc = "idle"
    /\ UNCHANGED <<archive_file, url_index, now, call, ret, first_call>>
    /\ IF ~archive_file.exists
       THEN returns(Returned([success |-> FALSE, not_found |-> TRUE,
                              error |-> "No archive exists"]))
       ELSE LET scan == MarkScan(archive_file.lines, url, now,
                                 [records |-> <<>>, found |-> FALSE,
                                  company |-> "Unknown", role |-> "Unknown",
                                  raised |-> FALSE])
            IN IF scan.raised
               THEN returns(except_Exception("AttributeError"))
               ELSE IF ~scan.found
               THEN returns(Returned([success |-> FALSE, not_found |-> TRUE,
                                      error |-> "URL not in archive"]))
               ELSE /\ local' = [local EXCEPT ![self] =
                                   [pc |-> "mark_applied_rewrite",
                                    url |-> url,
                                    records |-> scan.records,
                                    company |-> scan.company,
                                    role |-> scan.role,
                                    seen |-> archive_file.lines]]

\* Mutant of records_read: the rewrite reads the file again.
records_read_again(self) == Records(archive_file)

\* `records`: the list the read loop filled, as the rewrite finds it.
records_read(self) == local[self].records

\* mark_applied from the rewrite on.
mark_applied_rewrite(self) ==
    LET result == Returned([success |-> TRUE, company |-> local[self].company,
                            role |-> local[self].role])
    IN
    /\ local[self].pc = "mark_applied_rewrite"
    /\ archive_file' = Rewrite(records_read(self))
    /\ local' = [local EXCEPT ![self] = Done("mark_applied", local[self].url, result)]
    /\ UNCHANGED <<url_index, now, call, ret, first_call>>

ServerArchiveResumeLookup ==
    \E input \in FoundInputs :
        archive_resume_lookup(Server, input.job_details, input.tailored_resume,
                              input.raw_content)
ServerArchiveResumeWrite == archive_resume_write(Server)
ServerMarkAppliedRead == \E url \in URLs : mark_applied_read(Server, url)
ServerMarkAppliedRewrite == mark_applied_rewrite(Server)

CliArchiveResumeLookup ==
    /\ ~url_index[Cli].built
    /\ \E input \in FoundInputs :
         archive_resume_lookup(Cli, input.job_details, input.tailored_resume,
                               input.raw_content)
CliArchiveResumeWrite == archive_resume_write(Cli)

NextConcurrent ==
    \/ ServerArchiveResumeLookup
    \/ ServerArchiveResumeWrite
    \/ ServerMarkAppliedRead
    \/ ServerMarkAppliedRewrite
    \/ CliArchiveResumeLookup
    \/ CliArchiveResumeWrite

\* The entry an earlier run has left in the file, for a url that none of
\* the calls made now is about.
EarlierRecord ==
    LET p == CHOOSE q \in Payloads : q.company = "Acme"
        u == UrlNames[NumUrls + 1]
    IN NewRecord(u, JobDetailsOf(p, u), p.tailored_resume, p.raw_content, "monday")

\* The file the two processes start on: missing, empty, or holding the
\* earlier entry.
InitConcurrent ==
    /\ archive_file \in {NoFile, EmptyFile, Rewrite(<<EarlierRecord>>)}
    /\ InitCommon

SpecConcurrent == InitConcurrent /\ [][NextConcurrent]_vars

\* Whether one of the lines is an entry for u.
Holds(lines, u) ==
    \E i \in 1..Len(lines) : IsDict(lines[i]) /\ UrlOf(lines[i].value) = u

\* The process has, as its last call, an archive_resume that reported
\* created.
ReportedCreated(self) ==
    /\ local[self].pc = "idle"
    /\ "ret" \in DOMAIN local[self]
    /\ local[self].op = "archive_resume"
    /\ Created(local[self].ret)

\* C19: the lost update across processes. When an archive_resume of one
\* process completes between the read of another process's mark_applied and
\* its rewrite, the rewrite discards the appended entry without a sign: the
\* entry is absent from the file after the rewrite, mark_applied reports
\* success, and the archive_resume has reported created.
C19_LostUpdate ==
    [][\A self \in Instances : \A other \in Instances \ {self} :
         ( /\ mark_applied_rewrite(self)
           /\ ReportedCreated(other)
           /\ ~Holds(local[self].seen, local[other].url)
           /\ Holds(archive_file.lines, local[other].url) )
         => /\ ~Holds(archive_file'.lines, local[other].url)
            /\ AppliedResult(local'[self].ret)
            /\ ReportedCreated(other)'
            /\ local[other].url \in url_index'[other].urls
      ]_vars

\* The server's mark_applied has reported success, the run of __main__ has
\* reported created for its url, and the file holds no entry for that url.
C19_Witness ==
    /\ local[Server].pc = "idle"
    /\ "ret" \in DOMAIN local[Server]
    /\ local[Server].op = "mark_applied"
    /\ AppliedResult(local[Server].ret)
    /\ ReportedCreated(Cli)
    /\ ~Holds(archive_file.lines, local[Cli].url)
    /\ archive_file.lines # <<>>

\* C20: two archive_resume calls of different processes for two different
\* urls, neither archived, that run at the same time are safe, a write in
\* append mode being one whole line. Each call goes on to its write and
\* reports created, its entry is put whole behind all the lines the file
\* holds at that moment, and after the second write the file is the lines
\* it held before the calls followed by the two entries, in the order of
\* the writes.
C20_ConcurrentAppendsSafe ==
    [][\A self \in Instances : \A other \in Instances \ {self} :
         /\ \A input \in ArchiveInputs :
              LET u == Get(input.job_details, "url", None) IN
              ( /\ archive_resume_lookup(self, input.job_details,
                                         input.tailored_resume, input.raw_content)
                /\ ~NoUrl(u)
                /\ ~Holds(archive_file.lines, u)
                /\ u \notin url_index[self].urls )
              => /\ local'[self].pc = "archive_resume_write"
                 /\ local'[self].url = u
                 /\ StoredPayload(local'[self].record) = input
         /\ archive_resume_write(self)
            => LET u == local[self].url
                   mine == dumps(local[self].record)
                   seen == local[self].seen
               IN
               /\ ReportedCreated(self)'
               /\ local'[self].url = u
               /\ archive_file'.lines = archive_file.lines \o <<mine>>
               /\ ~archive_file'.partial
               /\ ( /\ ReportedCreated(other)
                    /\ local[other].url # u
                    /\ ~Holds(seen, u)
                    /\ ~Holds(seen, local[other].url)
                    /\ Len(archive_file.lines) = Len(seen) + 1
                    /\ SubSeq(archive_file.lines, 1, Len(seen)) = seen
                    /\ Holds(archive_file.lines, local[other].url) )
                  => LET theirs == archive_file.lines[Len(seen) + 1] IN
                     /\ archive_file'.lines = seen \o <<theirs, mine>>
                     /\ IsDict(theirs)
                     /\ UrlOf(theirs.value) = local[other].url
                     /\ UrlOf(mine.value) = u
      ]_vars

\* Both processes have reported created for different urls, the file held
\* an earlier entry when each of them looked its url up, the entry of the
\* run of __main__ was written after the server's lookup and before the
\* server's write, and the file holds both entries behind the earlier one.
C20_Witness ==
    /\ ReportedCreated(Server)
    /\ ReportedCreated(Cli)
    /\ local[Server].url # local[Cli].url
    /\ local[Server].seen # <<>>
    /\ local[Cli].seen = local[Server].seen
    /\ Len(archive_file.lines) = Len(local[Server].seen) + 2
    /\ SubSeq(archive_file.lines, 1, Len(local[Server].seen)) = local[Server].seen
    /\ UrlOf(archive_file.lines[Len(archive_file.lines) - 1].value) = local[Cli].url
    /\ UrlOf(archive_file.lines[Len(archive_file.lines)].value) = local[Server].url

---------------------------------------------------------------------------
\* C21: a successful mark_applied drops the corrupt lines. After it the
\* file consists of exactly the entries that parsed during its scan, in
\* their original order (the entry asked for with applied set, the others
\* as they were), and no blank or unparseable line is left; when
\* mark_applied returns not_found, the file, unparseable lines included, is
\* as it was.
C21_MarkAppliedDropsCorruptLines ==
    [][\A u \in URLs :
         /\ (mark_applied(Server, u) /\ AppliedResult(ret'))
            => LET old == Entries(archive_file)
                   new == archive_file'.lines
               IN /\ Len(new) = Len(old)
                  /\ ~archive_file'.partial
                  /\ \A i \in 1..Len(new) :
                       /\ IsDict(new[i])
                       /\ IF UrlOf(old[i].value) = u
                          THEN /\ UrlOf(new[i].value) = u
                               /\ new[i].value.applied
                               /\ \A k \in DOMAIN old[i].value \ {"applied", "applied_at"} :
                                    new[i].value[k] = old[i].value[k]
                          ELSE new[i] = old[i]
         /\ (mark_applied(Server, u) /\ NotFound(ret'))
            => archive_file' = archive_file
      ]_vars

\* mark_applied has just succeeded and every line of the file is an entry,
\* while the index holds a url whose entry, written behind a line that had
\* no newline, was part of an unparseable line: that line is gone.
C21_Witness ==
    /\ call.op = "mark_applied"
    /\ AppliedResult(ret)
    /\ archive_file.lines # <<>>
    /\ \A i \in 1..Len(archive_file.lines) : IsDict(archive_file.lines[i])
    /\ \E u \in url_index[Server].urls : ~HasEntry(archive_file, u)

\* mark_applied has just returned not_found on a file that holds an
\* unparseable line.
C21_NotFoundKeepsLines ==
    /\ call.op = "mark_applied"
    /\ NotFound(ret)
    /\ \E i \in 1..Len(archive_file.lines) : JSONDecodeError(archive_file.lines[i])

---------------------------------------------------------------------------
\* C22: a corrupt entry never fails a whole operation. Whatever the file
\* holds besides well-formed entries (lines that are no JSON, lines that
\* are JSON but no mapping), list_archives(), archive_count() and
\* applied_count() return a value, mark_applied returns applied or
\* not_found, and archive_resume with a url returns created or
\* already_exists: each skips those lines and completes normally.
C22_CorruptEntryNeverFails ==
    /\ call.op \in {"list_archives", "archive_count", "applied_count"}
       => "returned" \in DOMAIN ret
    /\ call.op = "list_archives" => ret = Returned(Summaries(archive_file))
    /\ call.op = "applied_count" => ret = Returned(AppliedEntries(archive_file))
    /\ call.op = "mark_applied" => AppliedResult(ret) \/ NotFound(ret)
    /\ (call.op = "archive_resume" /\ ~NoUrl(call.url))
       => Created(ret) \/ AlreadyExists(ret)

\* C22 on the files whose lines are all blank, rejected by json.loads, or
\* JSON objects: there every operation completes normally.
C22_CorruptEntryNeverFailsOnObjects ==
    (\A i \in 1..Len(archive_file.lines) : ~NotMapping(archive_file.lines[i]))
    => C22_CorruptEntryNeverFails

---------------------------------------------------------------------------
\* backend/main.py: run_pipeline. The server runs the pipeline on its one
\* JobStorage instance; local[Server] holds the position of the run, the
\* calls it has made so far (steps) and, once it has returned, its result.

\* The calls of a run, in the order of the source text.
PipelineOrder ==
    <<"clean_file", "tailor_resume", "validate_job_details", "store",
      "archive_resume", "auto_compile">>

\* tailored_resume.json and cleaned.txt as the first two steps leave them.
PipelinePayload == CHOOSE q \in Payloads : q.company = "Globex"

\* job_details.json as tailor_resume leaves it: complete (with a url, with
\* none), without a description, or with an empty company.
PipelineJobDetails ==
    LET p == PipelinePayload
        Full(u) == [url |-> u, company |-> p.company, role |-> p.role,
                    short_description |-> "analysis"]
    IN {Full(u) : u \in URLs}
       \cup {[company |-> p.company, role |-> p.role,
              short_description |-> "analysis"]}
       \cup {JobDetailsOf(p, u) : u \in URLs}
       \cup {[Full(u) EXCEPT !.company = ""] : u \in URLs}

\* `not value` for what job_details.get returns.
Falsy(value) == value = None \/ value = ""

\* The names appended to `missing`, in order.
MissingFields(job_details) ==
    LET Part(key, name) ==
            IF Falsy(Get(job_details, key, None)) THEN <<name>> ELSE <<>>
    IN Part("company", "company") \o Part("role", "role")
       \o Part("short_description", "description")

\* Mutant of validate_job_details: nothing is required.
validate_nothing(job_details) ==
    [is_valid |-> TRUE, missing |-> <<>>]

validate_job_details(job_details) ==
    [is_valid |-> MissingFields(job_details) = <<>>,
     missing |-> MissingFields(job_details)]

\* The run before its first call.
StartOfRun(resume) ==
    [pc |-> "clean_file", resume |-> resume, downloaded |-> {},
     job_details |-> EmptyDict, steps |-> <<>>, stored |-> EmptyDict,
     result |-> EmptyDict]

\* `return {...}`: the run is over and its result is kept.
Finish(run, result) == [run EXCEPT !.pc = "idle", !.result = result]

\* The failure results of the numbered steps, and the success result.
PipelineFailure(error) ==
    [success |-> FALSE, error |-> error, custom_output |-> "custom_output"]
PipelineSuccess(pdf_path) ==
    [success |-> TRUE, pdf_path |-> pdf_path, custom_output |-> "custom_output"]

\* Mutant of after_store: a failed store ends step 3.
after_store_checked(stored) ==
    IF stored.success THEN "archive_resume" ELSE "auto_compile"

\* The statement after `job_storage.store(job_details_path)`: the result of
\* the call is dropped.
after_store(stored) == "archive_resume"

\* Step 1, clean_file(), which may raise.
run_pipeline_clean_file ==
    \E resume \in BOOLEAN, raises \in BOOLEAN :
        LET run == [StartOfRun(resume) EXCEPT !.steps = <<"clean_file">>] IN
        /\ local[Server].pc = "idle"
        /\ call' = [op |-> "clean_file", self |-> Server]
        /\ ret' = IF raises THEN Raised("Exception") ELSE Returned(None)
        /\ local' = [local EXCEPT ![Server] =
                       IF raises
                       THEN Finish(run, except_Exception("Exception").returned)
                       ELSE [run EXCEPT !.pc = "tailor_resume"]]
        /\ UNCHANGED <<archive_file, url_index, now, first_call>>

\* Step 2, tailor_resume(), which may raise, and the files it leaves in
\* downloaded/.
run_pipeline_tailor_resume ==
    \E raises \in BOOLEAN,
       downloaded \in SUBSET {"job_details.json", "tailored_resume.json"},
       job_details \in PipelineJobDetails :
        LET run == [local[Server] EXCEPT
                      !.steps = Append(@, "tailor_resume")] IN
        /\ local[Server].pc = "tailor_resume"
        /\ call' = [op |-> "tailor_resume", self |-> Server]
        /\ ret' = IF raises THEN Raised("Exception") ELSE Returned(None)
        /\ local' = [local EXCEPT ![Server] =
                       IF raises
                       THEN Finish(run, except_Exception("Exception").returned)
                       ELSE [run EXCEPT !.pc = "validate_job_details",
                                        !.downloaded = downloaded,
                                        !.job_details = job_details]]
        /\ UNCHANGED <<archive_file, url_index, now, first_call>>

\* Step 3 up to the store: job_details.json is looked for and validated.
run_pipeline_validate_job_details ==
    LET run == local[Server]
        checked == validate_job_details(run.job_details)
        called == [run EXCEPT !.steps = Append(@, "validate_job_details")]
    IN
    /\ run.pc = "validate_job_details"
    /\ IF "job_details.json" \notin run.downloaded
       THEN /\ local' = [local EXCEPT ![Server] =
                           Finish(run, PipelineFailure("No job details extracted"))]
            /\ UNCHANGED <<call, ret>>
       ELSE /\ call' = [op |-> "validate_job_details", self |-> Server]
            /\ ret' = Returned(checked)
            /\ local' = [local EXCEPT ![Server] =
                           IF checked.is_valid
                           THEN [called EXCEPT !.pc = "store"]
                           ELSE Finish(called, PipelineFailure("Missing"))]
    /\ UNCHANGED <<archive_file, url_index, now, first_call>>

\* job_storage.store(job_details_path): the upsert succeeds or fails, and in
\* both cases the call returns a dict.
run_pipeline_store ==
    \E success \in BOOLEAN :
        LET run == local[Server]
            stored == [success |-> success]
        IN
        /\ run.pc = "store"
        /\ call' = [op |-> "store", self |-> Server]
        /\ ret' = Returned(stored)
        /\ local' = [local EXCEPT ![Server] =
                       [run EXCEPT !.pc = after_store(stored),
                                   !.steps = Append(@, "store"),
                                   !.stored = stored]]
        /\ UNCHANGED <<archive_file, url_index, now, first_call>>

\* `if os.path.exists(tailored_resume_path): job_storage.archive_resume(...)`
run_pipeline_archive_resume ==
    LET run == local[Server] IN
    /\ run.pc = "archive_resume"
    /\ IF "tailored_resume.json" \in run.downloaded
       THEN /\ archive_resume_call(Server, run.job_details,
                                   PipelinePayload.tailored_resume,
                                   PipelinePayload.raw_content)
            /\ local' = [local EXCEPT ![Server] =
                           [run EXCEPT !.pc = "auto_compile",
                                       !.steps = Append(@, "archive_resume")]]
       ELSE /\ local' = [local EXCEPT ![Server] =
                           [run EXCEPT !.pc = "auto_compile"]]
            /\ UNCHANGED <<archive_file, url_index, now, call, ret, first_call>>

\* Step 4: auto_compile() when the resume option is set; it returns a path,
\* returns None, or raises.
run_pipeline_auto_compile ==
    LET run == local[Server]
        called == [run EXCEPT !.steps = Append(@, "auto_compile")]
    IN
    /\ run.pc = "auto_compile"
    /\ IF run.resume
       THEN \E outcome \in {"resume.pdf", None, "raises"} :
              /\ call' = [op |-> "auto_compile", self |-> Server]
              /\ ret' = IF outcome = "raises" THEN Raised("Exception")
                        ELSE Returned(outcome)
              /\ local' = [local EXCEPT ![Server] =
                             Finish(called,
                                    CASE outcome = "raises" ->
                                           except_Exception("Exception").returned
                                      [] outcome = None ->
                                           PipelineFailure("PDF compilation failed")
                                      [] OTHER -> PipelineSuccess(outcome))]
       ELSE /\ local' = [local EXCEPT ![Server] =
                           Finish(run, PipelineSuccess(None))]
            /\ UNCHANGED <<call, ret>>
    /\ UNCHANGED <<archive_file, url_index, now, first_call>>

NextPipeline ==
    \/ run_pipeline_clean_file
    \/ run_pipeline_tailor_resume
    \/ run_pipeline_validate_job_details
    \/ run_pipeline_store
    \/ run_pipeline_archive_resume
    \/ run_pipeline_auto_compile

SpecPipeline == Init /\ [][NextPipeline]_vars

\* The run of the server (none before the first), whether it made a call,
\* and whether it has returned.
PipelineRun == local[Server]
Started == "steps" \in DOMAIN PipelineRun
Invoked(step) ==
    /\ Started
    /\ \E i \in 1..Len(PipelineRun.steps) : PipelineRun.steps[i] = step
Returns == Started /\ PipelineRun.pc = "idle"

\* C23: the calls of a run are made in the order clean_file, tailor_resume,
\* validate_job_details, store, archive_resume, auto_compile; store and
\* archive_resume are called only after validate_job_details was called on
\* a job_details.json with company, role and short_description; and a run
\* that found no job_details.json, or one that fails validation, returns a
\* failure without calling store, archive_resume or auto_compile.
C23_PipelineOrder ==
    LET run == PipelineRun
        Position(step) == CHOOSE k \in 1..Len(PipelineOrder) : PipelineOrder[k] = step
        Complete ==
            /\ "job_details.json" \in run.downloaded
            /\ \A key \in {"company", "role", "short_description"} :
                 /\ key \in DOMAIN run.job_details
                 /\ run.job_details[key] # ""
    IN Started =>
       /\ \A i, j \in 1..Len(run.steps) :
            i < j => Position(run.steps[i]) < Position(run.steps[j])
       /\ (Invoked("store") \/ Invoked("archive_resume"))
             => Invoked("validate_job_details") /\ Complete
       /\ Invoked("archive_resume") => Invoked("store")
       /\ (Returns /\ Invoked("tailor_resume") /\ ~Complete)
             => /\ ~run.result.success
                /\ ~Invoked("store")
                /\ ~Invoked("archive_resume")
                /\ ~Invoked("auto_compile")

\* A run that made all six calls and returned success.
C23_Witness ==
    /\ Returns
    /\ PipelineRun.steps = PipelineOrder
    /\ PipelineRun.result.success

\* A run that stopped at a job_details.json without a description.
C23_ValidationFails ==
    /\ Returns
    /\ PipelineRun.steps = <<"clean_file", "tailor_resume", "validate_job_details">>
    /\ "short_description" \notin DOMAIN PipelineRun.job_details
    /\ ~PipelineRun.result.success

\* C30: a failed store does not keep the run from archiving. Once a run
\* whose store returned a failure is past step 3, archive_resume was called
\* if tailored_resume.json exists and was not called if it does not.
C30_FailedStoreStillArchives ==
    LET run == PipelineRun IN
    (/\ Invoked("store")
     /\ ~run.stored.success
     /\ run.pc \in {"auto_compile", "idle"})
    => (Invoked("archive_resume") <=> "tailored_resume.json" \in run.downloaded)

\* The store failed and the archive_resume of the same run created an entry.
C30_Witness ==
    /\ PipelineRun.pc = "auto_compile"
    /\ Invoked("store") /\ ~PipelineRun.stored.success
    /\ Invoked("archive_resume")
    /\ call.op = "archive_resume" /\ Created(ret)
    /\ HasEntry(archive_file, call.url)

\* The store failed and there was no tailored_resume.json to archive.
C30_NothingToArchive ==
    /\ PipelineRun.pc = "auto_compile"
    /\ Invoked("store") /\ ~PipelineRun.stored.success
    /\ "tailored_resume.json" \notin PipelineRun.downloaded
    /\ ~Invoked("archive_resume")

---------------------------------------------------------------------------
\* The url values of the well-formed entries that have a url key.
StoredUrls(f) ==
    {f.lines[i].value.url :
        i \in {k \in 1..Len(f.lines) :
                 IsDict(f.lines[k]) /\ "url" \in DOMAIN f.lines[k].value}}

\* C24: the index of the instance, once built, is exactly the set of the url
\* values of the well-formed entries of the file, after any sequence of
\* archive_resume, mark_applied, list_archives, archive_count and
\* applied_count calls on that one instance.
C24_IndexIsStoredUrls ==
    url_index[Server].built => url_index[Server].urls = StoredUrls(archive_file)

\* The last call was an archive_resume whose index build aborted: the read
\* failed, or a line made the scan raise.
BuildAborted ==
    /\ call.op = "archive_resume"
    /\ \/ "failed" \in DOMAIN call /\ call.failed = "index"
       \/ ret = except_Exception("TypeError")

\* C25: an index build that failed is not kept as a complete index. When
\* the first scan aborts (the read fails, or a line makes the scan raise)
\* the archive_resume call returns an error, and the next archive_resume
\* of the instance for a url that has an entry in the file returns
\* already_exists and leaves the file as it is.
C25_FailedBuildNotKept ==
    [][\A input \in FoundInputs :
         LET u == Get(input.job_details, "url", None) IN
         /\ ( /\ ~NoUrl(u)
              /\ \/ archive_resume_OSError(Server, input.job_details,
                                           input.tailored_resume,
                                           input.raw_content, "index")
                 \/ /\ build_url_index(Server).raised
                    /\ archive_resume(Server, input.job_details,
                                      input.tailored_resume, input.raw_content) )
            => ErrorResult(ret')
         /\ ( /\ BuildAborted
              /\ ~NoUrl(u)
              /\ HasEntry(archive_file, u)
              /\ archive_resume(Server, input.job_details,
                                input.tailored_resume, input.raw_content) )
            => /\ AlreadyExists(ret')
               /\ archive_file' = archive_file
      ]_vars

\* C26: a failed write is not recorded as archived. When the write of an
\* archive_resume call fails, or the read of tailored_resume.json before
\* it, the call returns an error result and the url is not added to the
\* index (an index built before is left as it is); the next archive_resume
\* call of the same url, made when the reads and writes succeed, reports
\* created and leaves exactly one entry with that url in the file.
C26_FailedWriteNotRecorded ==
    [][\A input \in FoundInputs :
         LET u == Get(input.job_details, "url", None) IN
         /\ \A at \in {"tailored_resume", "write"} :
              archive_resume_OSError(Server, input.job_details,
                                     input.tailored_resume, input.raw_content, at)
              => /\ ErrorResult(ret')
                 /\ u \notin url_index'[Server].urls
                 /\ url_index[Server].built => url_index' = url_index
         /\ ( /\ call.op = "archive_resume"
              /\ "failed" \in DOMAIN call
              /\ call.failed \in {"tailored_resume", "write"}
              /\ call.url = u
              /\ archive_resume(Server, input.job_details, input.tailored_resume,
                                input.raw_content) )
            => /\ Created(ret')
               /\ Cardinality(WithUrl(archive_file', u)) = 1
      ]_vars

---------------------------------------------------------------------------
\* Two processes of the API server on one archive file. Each has its own
\* instance and makes its calls one after another; the steps of the two
\* interleave. The second process runs pipelines (whose job_details.json
\* has a url) while the first one also serves /api/mark-applied.

WorkerInputs == {input \in FoundInputs : ~NoUrl(Get(input.job_details, "url", None))}

WorkerArchiveResumeLookup ==
    \E input \in WorkerInputs :
        archive_resume_lookup(Worker, input.job_details, input.tailored_resume,
                              input.raw_content)
WorkerArchiveResumeWrite == archive_resume_write(Worker)

NextWorkers ==
    \/ ServerArchiveResumeLookup
    \/ ServerArchiveResumeWrite
    \/ ServerMarkAppliedRead
    \/ ServerMarkAppliedRewrite
    \/ WorkerArchiveResumeLookup
    \/ WorkerArchiveResumeWrite

SpecWorkers == Init /\ [][NextWorkers]_vars

\* C27: already_exists is only reported for a url that is in the file. For
\* any interleaving of the archive_resume and mark_applied calls of
\* instances on one file, when an archive_resume call returns
\* already_exists for a url, the file holds an entry with that url.
C27_AlreadyExistsMeansStored ==
    [][\A self \in Instances : \A input \in FoundInputs :
         ( /\ archive_resume_lookup(self, input.job_details,
                                    input.tailored_resume, input.raw_content)
           /\ local'[self].pc = "idle"
           /\ AlreadyExists(local'[self].ret) )
         => Holds(archive_file'.lines, local'[self].url)
      ]_vars

\* C28: mark_applied changes neither which urls are archived nor the
\* index. After any mark_applied call, successful or not, the set of the
\* url values of the well-formed entries of the file and the index of the
\* instance are what they were before the call; and an archive_resume call
\* that follows it, for a url that has an entry, returns already_exists.
C28_MarkAppliedFrame ==
    [][/\ \A u \in URLs :
            ( \/ mark_applied(Server, u)
              \/ \E at \in MarkFailPoints : mark_applied_OSError(Server, u, at) )
            => /\ StoredUrls(archive_file') = StoredUrls(archive_file)
               /\ url_index' = url_index
       /\ \A input \in FoundInputs :
            LET u == Get(input.job_details, "url", None) IN
            ( /\ call.op = "mark_applied"
              /\ ~NoUrl(u)
              /\ HasEntry(archive_file, u)
              /\ archive_resume(Server, input.job_details, input.tailored_resume,
                                input.raw_content) )
            => AlreadyExists(ret')
      ]_vars

\* The file as a successful mark_applied(u) leaves it: every line an entry
\* with its newline, and every entry with url u applied.
MarkedAlready(f, u) ==
    /\ HasApplied(f, u)
    /\ ~f.partial
    /\ \A i \in 1..Len(f.lines) :
         /\ IsDict(f.lines[i])
         /\ UrlOf(f.lines[i].value) = u => Get(f.lines[i].value, "applied", FALSE)

\* C29: marking an applied url again is accepted and does not change the
\* flag. A mark_applied(U) call made when U is applied already returns the
\* applied success result, leaves every entry of U applied, and leaves
\* archive_count() and applied_count() as they were.
C29_MarkAgainIdempotent ==
    [][\A u \in URLs :
         (MarkedAlready(archive_file, u) /\ mark_applied(Server, u))
         => /\ AppliedResult(ret')
            /\ MarkedAlready(archive_file', u)
            /\ archive_count(archive_file') = archive_count(archive_file)
            /\ applied_count(archive_file') = applied_count(archive_file)
            /\ "returned" \in DOMAIN applied_count(archive_file')
      ]_vars

\* A mark_applied call of an applied url has returned success, in a file
\* that holds an entry that is not applied as well.
C29_Witness ==
    /\ call.op = "mark_applied"
    /\ call.again
    /\ AppliedResult(ret)
    /\ HasApplied(archive_file, call.url)
    /\ AppliedEntries(archive_file) < Len(Entries(archive_file))

====
